---------------------------- MODULE Spec2Model ----------------------------
(***************************************************************************)
(* Model of telegram_receipts_bot.py: the /add_pedido conversation (one    *)
(* handler per step), the pedidos table and its operations, the validators *)
(* and the receipt table of generate_pdf_bytes.                            *)
(*                                                                         *)
(* Text is a sequence of one-character strings, so that strip, lower,      *)
(* replace, re.sub, float and strptime are computed the way the code       *)
(* computes them.  The character set of the model is: digits, letters,     *)
(* space and . , - / : $ % _ ; float literals with exponents, "inf", "nan", *)
(* "+" and "_" are outside the inputs the model draws.                     *)
(* Money is an integer number of cents (the code keeps a float rounded to  *)
(* two decimals).  An Optional result is a set with at most one element    *)
(* ({} is None).                                                           *)
(***************************************************************************)
EXTENDS Integers, Sequences, FiniteSets, TLC

(***************************************************************************)
(* Text primitives (Python str methods used by the code).                  *)
(***************************************************************************)
Digits == <<"0", "1", "2", "3", "4", "5", "6", "7", "8", "9">>

UpperCase ==
    <<"A", "B", "C", "D", "E", "F", "G", "H", "I", "J", "K", "L", "M",
      "N", "O", "P", "Q", "R", "S", "T", "U", "V", "W", "X", "Y", "Z">>

LowerCase ==
    <<"a", "b", "c", "d", "e", "f", "g", "h", "i", "j", "k", "l", "m",
      "n", "o", "p", "q", "r", "s", "t", "u", "v", "w", "x", "y", "z">>

IsDigit(c) == \E i \in 1..Len(Digits) : Digits[i] = c

DigitVal(c) == (CHOOSE i \in 1..Len(Digits) : Digits[i] = c) - 1

IsSpace(c) == c = " "

LowerChar(c) ==
    IF \E i \in 1..Len(UpperCase) : UpperCase[i] = c
    THEN LowerCase[CHOOSE i \in 1..Len(UpperCase) : UpperCase[i] = c]
    ELSE c

UpperChar(c) ==
    IF \E i \in 1..Len(LowerCase) : LowerCase[i] = c
    THEN UpperCase[CHOOSE i \in 1..Len(LowerCase) : LowerCase[i] = c]
    ELSE c

\* str.lower()
lower(s) == [i \in 1..Len(s) |-> LowerChar(s[i])]

\* str.upper()
upper(s) == [i \in 1..Len(s) |-> UpperChar(s[i])]

\* str.strip(): drop leading and trailing whitespace
strip(s) ==
    LET keep == {i \in 1..Len(s) : ~IsSpace(s[i])}
    IN  IF keep = {} THEN <<>>
        ELSE LET lo == CHOOSE i \in keep : \A j \in keep : i <= j
                 hi == CHOOSE i \in keep : \A j \in keep : j <= i
             IN  SubSeq(s, lo, hi)

\* s[:n]
Truncate(s, n) == IF Len(s) <= n THEN s ELSE SubSeq(s, 1, n)

\* does pat occur in s at position i
MatchAt(s, i, pat) ==
    /\ i + Len(pat) - 1 <= Len(s)
    /\ \A k \in 1..Len(pat) : s[i + k - 1] = pat[k]

\* str.replace(old, new): every non-overlapping occurrence, left to right
RECURSIVE ReplaceFrom(_, _, _, _)
ReplaceFrom(s, i, old, new) ==
    IF i > Len(s) THEN <<>>
    ELSE IF MatchAt(s, i, old)
         THEN new \o ReplaceFrom(s, i + Len(old), old, new)
         ELSE <<s[i]>> \o ReplaceFrom(s, i + 1, old, new)

replace(s, old, new) == ReplaceFrom(s, 1, old, new)

\* re.sub(r'[^0-9]', '', s)
OnlyDigits(s) == SelectSeq(s, IsDigit)

\* int() of a sequence of digits
RECURSIVE DigitsToNat(_)
DigitsToNat(ds) ==
    IF ds = <<>> THEN 0
    ELSE 10 * DigitsToNat(SubSeq(ds, 1, Len(ds) - 1)) + DigitVal(ds[Len(ds)])

\* the decimal digits of a natural number, without padding
RECURSIVE NatToDigits(_)
NatToDigits(n) ==
    IF n < 10 THEN <<Digits[n + 1]>>
    ELSE NatToDigits(n \div 10) \o <<Digits[(n % 10) + 1]>>

\* '%02d'
Pad2(n) == IF n < 10 THEN <<"0">> \o NatToDigits(n) ELSE NatToDigits(n)

(***************************************************************************)
(* float(): [sign] digits [. [digits]]  or  [sign] . digits, surrounded by *)
(* optional whitespace.  The result keeps the literal exact: sign, integer *)
(* part and the fraction digits.                                           *)
(***************************************************************************)
float(s0) ==
    LET s    == strip(s0)
        neg  == Len(s) > 0 /\ s[1] = "-"
        body == IF neg THEN Tail(s) ELSE s
        dots == {i \in 1..Len(body) : body[i] = "."}
        ip   == IF dots = {} THEN body
                ELSE SubSeq(body, 1, (CHOOSE i \in dots : TRUE) - 1)
        fp   == IF dots = {} THEN <<>>
                ELSE SubSeq(body, (CHOOSE i \in dots : TRUE) + 1, Len(body))
    IN  IF /\ Cardinality(dots) <= 1
           /\ Len(ip) + Len(fp) > 0
           /\ \A i \in 1..Len(ip) : IsDigit(ip[i])
           /\ \A i \in 1..Len(fp) : IsDigit(fp[i])
        THEN {[neg |-> neg, int |-> DigitsToNat(ip), frac |-> fp]}
        ELSE {}

\* value >= 0 on a parsed literal (-0 and -0.00 compare equal to 0)
NonNegative(f) ==
    \/ ~f.neg
    \/ f.int = 0 /\ \A i \in 1..Len(f.frac) : f.frac[i] = "0"

\* round(value, 2) in cents.  A literal exactly halfway between two cents
\* is rounded by the binary value of the float, which this model does not
\* compute: both neighbours are possible results.
round2(f) ==
    LET fd(i)  == IF i <= Len(f.frac) THEN DigitVal(f.frac[i]) ELSE 0
        base   == f.int * 100 + fd(1) * 10 + fd(2)
        rest   == IF Len(f.frac) > 3 THEN SubSeq(f.frac, 4, Len(f.frac)) ELSE <<>>
        restNZ == \E i \in 1..Len(rest) : rest[i] # "0"
    IN  IF fd(3) < 5 THEN {base}
        ELSE IF fd(3) > 5 \/ restNZ THEN {base + 1}
        ELSE {base, base + 1}

(***************************************************************************)
(* datetime: a record [Y, m, d, H, M, S]; strftime and strptime with the   *)
(* format '%d/%m/%Y %H:%M:%S'.                                             *)
(***************************************************************************)
IsLeap(y) == (y % 4 = 0 /\ y % 100 # 0) \/ y % 400 = 0

DaysInMonth(y, m) ==
    IF m = 2 THEN (IF IsLeap(y) THEN 29 ELSE 28)
    ELSE IF m \in {4, 6, 9, 11} THEN 30 ELSE 31

\* dt.strftime('%d/%m/%Y %H:%M:%S') (glibc does not pad %Y)
strftime(dt) ==
    Pad2(dt.d) \o <<"/">> \o Pad2(dt.m) \o <<"/">> \o NatToDigits(dt.Y)
    \o <<" ">> \o Pad2(dt.H) \o <<":">> \o Pad2(dt.M) \o <<":">> \o Pad2(dt.S)

\* length of the run of digits of s that starts at position i
RECURSIVE DigitRun(_, _)
DigitRun(s, i) ==
    IF i <= Len(s) /\ IsDigit(s[i]) THEN 1 + DigitRun(s, i + 1) ELSE 0

\* length of the run of whitespace of s that starts at position i
RECURSIVE SpaceRun(_, _)
SpaceRun(s, i) ==
    IF i <= Len(s) /\ IsSpace(s[i]) THEN 1 + SpaceRun(s, i + 1) ELSE 0

\* a one- or two-digit field at position i, followed by the literal sep
\* (sep = "" stands for the end of the text): {} or {[val, next]}
Field(s, i, sep) ==
    LET n == DigitRun(s, i)
    IN  IF /\ n \in {1, 2}
           /\ IF sep = "" THEN i + n = Len(s) + 1
              ELSE i + n <= Len(s) /\ s[i + n] = sep
        THEN {[val  |-> DigitsToNat(SubSeq(s, i, i + n - 1)),
               len  |-> n,
               next |-> IF sep = "" THEN i + n ELSE i + n + 1]}
        ELSE {}

\* datetime.strptime(s, '%d/%m/%Y %H:%M:%S'): {} stands for ValueError.
\* %d is 3[0-1]|[1-2]\d|0[1-9]|[1-9]| [1-9]; %m is 1[0-2]|0[1-9]|[1-9];
\* %Y is \d\d\d\d; the blank of the format is \s+; %H is 2[0-3]|[0-1]\d|\d;
\* %M is [0-5]\d|\d; %S is 6[0-1]|[0-5]\d|\d, and datetime() refuses a
\* second above 59, a year 0 and a day the month does not have.
strptime(s) ==
    LET lead == IF Len(s) >= 2 /\ IsSpace(s[1]) /\ DigitRun(s, 2) = 1 THEN 1 ELSE 0
        fd   == Field(s, 1 + lead, "/")
    IN  IF fd = {} THEN {}
        ELSE
        LET d  == CHOOSE x \in fd : TRUE
            fm == Field(s, d.next, "/")
        IN  IF fm = {} THEN {}
            ELSE
            LET m  == CHOOSE x \in fm : TRUE
                ny == DigitRun(s, m.next)
                ws == SpaceRun(s, m.next + ny)
                fH == Field(s, m.next + ny + ws, ":")
            IN  IF ny # 4 \/ ws = 0 \/ fH = {} THEN {}
                ELSE
                LET Y  == DigitsToNat(SubSeq(s, m.next, m.next + 3))
                    H  == CHOOSE x \in fH : TRUE
                    fM == Field(s, H.next, ":")
                IN  IF fM = {} THEN {}
                    ELSE
                    LET M  == CHOOSE x \in fM : TRUE
                        fS == Field(s, M.next, "")
                    IN  IF fS = {} THEN {}
                        ELSE
                        LET S == CHOOSE x \in fS : TRUE
                        IN  IF /\ d.val >= 1
                               /\ m.val >= 1 /\ m.val <= 12
                               /\ Y >= 1
                               /\ d.val <= DaysInMonth(Y, m.val)
                               /\ H.val <= 23 /\ M.val <= 59 /\ S.val <= 59
                            THEN {[Y |-> Y, m |-> m.val, d |-> d.val,
                                   H |-> H.val, M |-> M.val, S |-> S.val]}
                            ELSE {}

(***************************************************************************)
(* The validators (VALIDACOES).                                            *)
(***************************************************************************)
\* validate_cpf: an empty text is accepted (the CPF is optional)
validate_cpf(cpf) ==
    IF cpf = <<>> THEN TRUE
    ELSE Len(OnlyDigits(cpf)) = 11

\* validate_value without the test value < 0
validate_value_Signed(value_str) ==
    UNION {IF NonNegative(value) THEN round2(value)
           ELSE {0 - c : c \in round2(value)} :
              value \in UNION {float(cleaned) :
                 cleaned \in {strip(replace(dotted, <<"R", "$">>, <<>>)) :
                    dotted \in {replace(value_str, <<",">>, <<".">>)}}}}

\* validate_value: the set of results round(value, 2) in cents; {} is None.
\* cleaned is value_str.replace(',', '.').replace('R$', '').strip() and
\* value is float(cleaned), when float() does not raise.
validate_value(value_str) ==
    UNION {IF NonNegative(value) THEN round2(value) ELSE {} :
              value \in UNION {float(cleaned) :
                 cleaned \in {strip(replace(dotted, <<"R", "$">>, <<>>)) :
                    dotted \in {replace(value_str, <<",">>, <<".">>)}}}}

\* validate_date: the formatted date, or <<>> for None; now is datetime.now()
validate_date(date_str, now) ==
    IF lower(date_str) = <<"a", "g", "o", "r", "a">>
    THEN strftime(now)
    ELSE LET dt == strptime(date_str)
         IN  IF dt = {} THEN <<>> ELSE strftime(CHOOSE x \in dt : TRUE)

\* sanitize_input
sanitize_input(text, max_length) ==
    IF text = <<>> THEN <<>>
    ELSE Truncate(strip(text), max_length)

(***************************************************************************)
(* Bounds of the model and the inputs it draws.                            *)
(***************************************************************************)
\* datetime.now() returns one of MaxClock + 1 different times
MaxClock == 0

\* the users that talk to the bot, each in a private chat of their own
Actors == {1, 2}

\* the i-th time of the wall clock: 31/01/2025 23:59:59, then i/02/2025
ClockTime(i) ==
    IF i = 0 THEN [Y |-> 2025, m |-> 1, d |-> 31, H |-> 23, M |-> 59, S |-> 59]
    ELSE [Y |-> 2025, m |-> 2, d |-> i, H |-> 0, M |-> 0, S |-> i]

\* what datetime.now() can return when a handler runs (the wall clock is
\* local time: it is not monotonic)
Times == {ClockTime(i) : i \in 0..MaxClock}

\* str(uuid.uuid4()): the values the model lets it return
UuidPool == {<<"u", "u", "i", "d", "-", "1">>}

\* keywords of the dialogue
GERAR == <<"g", "e", "r", "a", "r">>
PULAR == <<"p", "u", "l", "a", "r">>

\* The message texts an actor sends at each step (none starts with "/").
\* Race: two actors, one accepted text at most steps.
Race ==
    [actors   |-> Actors,
     id       |-> {<<" ", "A", "1">>, <<"G", "e", "r", "a", "r">>},
     cpf      |-> {<<"1", "2", "3", ".", "4", "5", "6", ".", "7", "8", "9", "-", "0", "1">>,
                   <<"1", "2", "3", "4", "5">>},
     nome     |-> {<<" ", "A", "n", "a", " ">>, <<" ", "A", "l", " ">>},
     produto  |-> {<<"M", "o", "u", "s", "e", " ">>, <<"a", "b">>},
     valor    |-> {<<"R", "$", " ", "1", "0", ",", "0", "0">>,
                   <<"-", "5">>},
     desconto |-> {<<"1", "0", ".", "0", "0", "4">>,
                   <<"R", "$", "1", "0", ",", "0", "0", "6">>,
                   <<"a", "b", "c">>},
     trans_id |-> {<<" ", "T", "X", "9">>},
     data     |-> {<<"A", "g", "o", "r", "a">>,
                   <<"n", "o", "w">>},
     pid      |-> {<<"A", "1">>} \cup UuidPool]

\* Solo: one actor, one order id, several accepted texts at each step.
Solo ==
    [actors   |-> {1},
     id       |-> {<<"O", "R", "D", "1">>},
     cpf      |-> {<<"P", "u", "l", "a", "r">>,
                   <<"1", "2", "3", ".", "4", "5", "6", ".", "7", "8", "9", "-", "0", "1">>,
                   <<" ", " ">>,
                   <<"a", "b", "c", "1", "2", "3", "4", "5", "6", "7", "8">>},
     nome     |-> {<<"M", "a", "r", "i", "a", " ", "S", "i", "l", "v", "a", " ">>,
                   <<" ", "M", "a", " ">>},
     produto  |-> {<<" ", "W", "i", "r", "e", "l", "e", "s", "s", " ", "M", "o", "u", "s", "e">>,
                   <<"W", "M">>},
     valor    |-> {<<"1", "5", "0", ",", "0", "0">>,
                   <<"R", "$", " ", "8", "9", ".", "9", "0">>,
                   <<"-", "5">>,
                   <<"1", ".", "5", "0", "0", ",", "0", "0">>},
     desconto |-> {<<"1", "0">>,
                   <<"8", "9", ",", "9", "0", "4">>,
                   <<"8", "9", ",", "9", "0", "6">>,
                   <<"-", "1">>},
     trans_id |-> {<<"P", "U", "L", "A", "R">>, <<" ", "T", "X", "9">>},
     data     |-> {<<"a", "g", "o", "r", "a">>,
                   <<"n", "o", "w">>,
                   <<"1", "/", "2", "/", "2", "0", "2", "4", " ", "1", ":", "0", ":", "0">>,
                   <<"3", "1", "/", "0", "2", "/", "2", "0", "2", "4", " ",
                     "1", "0", ":", "0", "0", ":", "0", "0">>},
     pid      |-> {<<"O", "R", "D", "1">>, <<"Z", "9">>}]

(***************************************************************************)
(* Conversation states (range(9)) and ConversationHandler.END.             *)
(***************************************************************************)
ASK_ID == 0
ASK_CPF == 1
ASK_NAME == 2
ASK_PRODUCT == 3
ASK_VALUE == 4
ASK_DISCOUNT == 5
ASK_ECONOMY == 6
ASK_TRANSID == 7
ASK_DATE_CONFIRM == 8
END == -1

PENDENTE == <<"p", "e", "n", "d", "e", "n", "t", "e">>
ENTREGUE == <<"e", "n", "t", "r", "e", "g", "u", "e">>

(***************************************************************************)
(* State.                                                                  *)
(*   ADMIN_ID       the configured administrator, 0 when none is set       *)
(*   conversations  ConversationHandler's state of each actor (END: none)  *)
(*   user_data      context.user_data of each actor, a dict                *)
(*   pedidos        the rows of table pedidos, in rowid order              *)
(*   reply          what the last handler sent: the messages, the order id *)
(*                  they name and the receipt, if one was sent             *)
(*   finished       history: the order id and the result of the last       *)
(*                  add_pedido_db of each actor's current conversation     *)
(***************************************************************************)
VARIABLES ADMIN_ID, conversations, user_data, pedidos, reply, finished

vars == <<ADMIN_ID, conversations, user_data, pedidos, reply, finished>>

\* a Python dict is a function on its keys
EmptyDict == [k \in {} |-> k]

HasKey(d, k) == k \in DOMAIN d

\* d.get(k, default)
Get(d, k, default) == IF k \in DOMAIN d THEN d[k] ELSE default

\* d[k] = v
Put(d, k, v) == (k :> v) @@ d

Say(msgs, pid) == [msgs |-> msgs, pid |-> pid, doc |-> EmptyDict, rows |-> <<>>]

SendDocument(msgs, pid, doc) == [msgs |-> msgs, pid |-> pid, doc |-> doc, rows |-> <<>>]

\* the answers of /buscar and /listar: one summary for each row of rows
SendRows(msgs, rows) == [msgs |-> msgs, pid |-> <<>>, doc |-> EmptyDict, rows |-> rows]

NotFinished == <<>>

(***************************************************************************)
(* DATABASE: table pedidos (id TEXT PRIMARY KEY, ...).  db_ok = FALSE is a *)
(* run in which sqlite3 raises (the file cannot be opened, is locked, the  *)
(* disk is full): every function catches the exception.                    *)
(***************************************************************************)
Columns ==
    {"id", "cpf", "nome", "produto", "valor", "desconto", "economia",
     "status", "created_at", "trans_id", "updated_at"}

\* the VALUES tuple of the INSERT
InsertValues(pedido, t) ==
    [id         |-> pedido["id"],
     cpf        |-> Get(pedido, "cpf", <<>>),
     nome       |-> Get(pedido, "nome", <<>>),
     produto    |-> Get(pedido, "produto", <<>>),
     valor      |-> Get(pedido, "valor", 0),
     desconto   |-> Get(pedido, "desconto", 0),
     economia   |-> Get(pedido, "economia", 0),
     status     |-> Get(pedido, "status", PENDENTE),
     created_at |-> Get(pedido, "created_at", strftime(t)),
     trans_id   |-> Get(pedido, "trans_id", <<>>),
     updated_at |-> strftime(t)]

\* the rows of the table whose id is pid
RowsWithId(table, pid) == {i \in 1..Len(table) : table[i].id = pid}

\* add_pedido_db on a table without the PRIMARY KEY constraint
add_pedido_db_NoPrimaryKey(table, pedido, t, db_ok) ==
    IF HasKey(pedido, "id") /\ db_ok
    THEN [ok |-> TRUE, table |-> Append(table, InsertValues(pedido, t))]
    ELSE [ok |-> FALSE, table |-> table]

\* add_pedido_db with INSERT OR REPLACE
add_pedido_db_Replace(table, pedido, t, db_ok) ==
    IF HasKey(pedido, "id") /\ db_ok
    THEN [ok    |-> TRUE,
          table |-> Append(SelectSeq(table, LAMBDA r : r.id # pedido["id"]),
                           InsertValues(pedido, t))]
    ELSE [ok |-> FALSE, table |-> table]

\* add_pedido_db: [ok, table].  The INSERT fails when pedido has no 'id'
\* (KeyError), when sqlite3 raises, and when the PRIMARY KEY is taken.
add_pedido_db(table, pedido, t, db_ok) ==
    IF /\ HasKey(pedido, "id")
       /\ db_ok
       /\ RowsWithId(table, pedido["id"]) = {}
    THEN [ok |-> TRUE, table |-> Append(table, InsertValues(pedido, t))]
    ELSE [ok |-> FALSE, table |-> table]

\* get_pedido_by_id: {} is None
get_pedido_by_id(table, pid, db_ok) ==
    IF db_ok /\ RowsWithId(table, pid) # {}
    THEN {table[CHOOSE i \in RowsWithId(table, pid) :
                    \A j \in RowsWithId(table, pid) : i <= j]}
    ELSE {}

\* update_pedido_status whose UPDATE has no WHERE id = ?
update_pedido_status_NoWhere(table, pid, status, t, db_ok) ==
    IF db_ok
    THEN [ok    |-> TRUE,
          table |-> [i \in 1..Len(table) |->
                        [table[i] EXCEPT !.status = status,
                                         !.updated_at = strftime(t)]]]
    ELSE [ok |-> FALSE, table |-> table]

\* update_pedido_status: [ok, table].  The UPDATE of no row is not an error.
update_pedido_status(table, pid, status, t, db_ok) ==
    IF db_ok
    THEN [ok    |-> TRUE,
          table |-> [i \in 1..Len(table) |->
                        IF table[i].id = pid
                        THEN [table[i] EXCEPT !.status = status,
                                              !.updated_at = strftime(t)]
                        ELSE table[i]]]
    ELSE [ok |-> FALSE, table |-> table]

(***************************************************************************)
(* The two SELECTs.  LIKE compares ASCII letters without regard to case    *)
(* and reads % and _ of its pattern as wildcards; ORDER BY created_at      *)
(* compares the TEXT values byte by byte; rows with equal created_at come  *)
(* in an order SQL leaves open; a negative LIMIT is no limit.              *)
(***************************************************************************)
\* the characters of the model in the order of their codes
Ascii ==
    <<" ", "$", "%", ",", "-", ".", "/",
      "0", "1", "2", "3", "4", "5", "6", "7", "8", "9", ":",
      "A", "B", "C", "D", "E", "F", "G", "H", "I", "J", "K", "L", "M",
      "N", "O", "P", "Q", "R", "S", "T", "U", "V", "W", "X", "Y", "Z", "_",
      "a", "b", "c", "d", "e", "f", "g", "h", "i", "j", "k", "l", "m",
      "n", "o", "p", "q", "r", "s", "t", "u", "v", "w", "x", "y", "z">>

Code(c) == CHOOSE i \in 1..Len(Ascii) : Ascii[i] = c

\* memcmp order of two TEXT values (collation BINARY): s sorts before t
RECURSIVE TextLessFrom(_, _, _)
TextLessFrom(s, t, i) ==
    IF i > Len(t) THEN FALSE
    ELSE IF i > Len(s) THEN TRUE
    ELSE IF s[i] = t[i] THEN TextLessFrom(s, t, i + 1)
    ELSE Code(s[i]) < Code(t[i])

TextLess(s, t) == TextLessFrom(s, t, 1)

\* text LIKE pat, from position j of text and position i of pat
RECURSIVE LikeFrom(_, _, _, _)
LikeFrom(pat, i, text, j) ==
    IF i > Len(pat) THEN j > Len(text)
    ELSE IF pat[i] = "%"
         THEN \E k \in j..(Len(text) + 1) : LikeFrom(pat, i + 1, text, k)
         ELSE /\ j <= Len(text)
              /\ pat[i] = "_" \/ LowerChar(pat[i]) = LowerChar(text[j])
              /\ LikeFrom(pat, i + 1, text, j + 1)

Like(text, pat) == LikeFrom(pat, 1, text, 1)

\* the orders in which ORDER BY created_at DESC can deliver the rows idx:
\* first a row that no other row is later than, then the others likewise
RECURSIVE OrderByCreatedAtDesc(_, _)
OrderByCreatedAtDesc(table, idx) ==
    IF idx = {} THEN {<<>>}
    ELSE LET first == {i \in idx :
                          \A j \in idx :
                             ~TextLess(table[i].created_at, table[j].created_at)}
         IN  UNION {{<<i>> \o p : p \in OrderByCreatedAtDesc(table, idx \ {i})} :
                       i \in first}

\* a LIMIT that cuts nothing
Limit_All(p, limit) == p

\* LIMIT ?
Limit(p, limit) ==
    IF limit < 0 \/ limit >= Len(p) THEN p ELSE SubSeq(p, 1, limit)

\* cur.fetchall() as a list of dicts
FetchAll(table, p) == [k \in 1..Len(p) |-> table[p[k]]]

\* search_pedidos: the lists it can return; [] when sqlite3 raises
search_pedidos(table, term, limit, db_ok) ==
    IF ~db_ok THEN {<<>>}
    ELSE LET like_term == <<"%">> \o term \o <<"%">>
             idx == {i \in 1..Len(table) :
                        \/ Like(table[i].id, like_term)
                        \/ Like(table[i].cpf, like_term)
                        \/ Like(table[i].nome, like_term)}
         IN  {FetchAll(table, Limit(p, limit)) : p \in OrderByCreatedAtDesc(table, idx)}

\* list_recent: the lists it can return; [] when sqlite3 raises
list_recent(table, limit, db_ok) ==
    IF ~db_ok THEN {<<>>}
    ELSE {FetchAll(table, Limit(p, limit)) :
             p \in OrderByCreatedAtDesc(table, 1..Len(table))}

(***************************************************************************)
(* PDF GENERATION: the rows of table `data` of generate_pdf_bytes and the  *)
(* Data/Hora line above it.                                                *)
(***************************************************************************)
\* f"R$ {x:.2f}" of an amount in cents
FormatMoney(cents) ==
    LET abs == IF cents < 0 THEN 0 - cents ELSE cents
    IN  <<"R", "$", " ">> \o (IF cents < 0 THEN <<"-">> ELSE <<>>)
        \o NatToDigits(abs \div 100) \o <<".">> \o Pad2(abs % 100)

\* generate_pdf_bytes with valor_final = valor - economia - desconto
generate_pdf_bytes_TwiceOff(pedido, now) ==
    [data_hora   |-> Get(pedido, "created_at", strftime(now)),
     id          |-> Get(pedido, "id", <<"N", "/", "A">>),
     trans_id    |-> Get(pedido, "trans_id", <<"N", "/", "A">>),
     nome        |-> Get(pedido, "nome", <<"N", "/", "A">>),
     cpf         |-> Get(pedido, "cpf", <<"N", "/", "A">>),
     produto     |-> Get(pedido, "produto", <<"N", "/", "A">>),
     valor       |-> FormatMoney(Get(pedido, "valor", 0)),
     desconto    |-> FormatMoney(Get(pedido, "desconto", 0)),
     economia    |-> FormatMoney(Get(pedido, "economia", 0)),
     valor_final |-> FormatMoney(Get(pedido, "valor", 0) - Get(pedido, "economia", 0)
                                 - Get(pedido, "desconto", 0)),
     status      |-> upper(Get(pedido, "status", <<"N", "/", "A">>))]

generate_pdf_bytes(pedido, now) ==
    [data_hora   |-> Get(pedido, "created_at", strftime(now)),
     id          |-> Get(pedido, "id", <<"N", "/", "A">>),
     trans_id    |-> Get(pedido, "trans_id", <<"N", "/", "A">>),
     nome        |-> Get(pedido, "nome", <<"N", "/", "A">>),
     cpf         |-> Get(pedido, "cpf", <<"N", "/", "A">>),
     produto     |-> Get(pedido, "produto", <<"N", "/", "A">>),
     valor       |-> FormatMoney(Get(pedido, "valor", 0)),
     desconto    |-> FormatMoney(Get(pedido, "desconto", 0)),
     economia    |-> FormatMoney(Get(pedido, "economia", 0)),
     valor_final |-> FormatMoney(Get(pedido, "valor", 0) - Get(pedido, "desconto", 0)),
     status      |-> upper(Get(pedido, "status", <<"N", "/", "A">>))]

(***************************************************************************)
(* BOT HANDLERS.  ConversationHandler runs the handler of the actor's      *)
(* state on a text message, add_pedido_start on /add_pedido when the actor *)
(* has no conversation, and cancel on /cancel inside a conversation.       *)
(***************************************************************************)
\* add_pedido_start without the test of lines 430-433
add_pedido_start_Open(a) ==
    /\ conversations[a] = END
    /\ reply' = Say(<<"digite_id">>, <<>>)
    /\ conversations' = [conversations EXCEPT ![a] = ASK_ID]
    /\ finished' = [finished EXCEPT ![a] = NotFinished]
    /\ UNCHANGED <<ADMIN_ID, user_data, pedidos>>

add_pedido_start(a) ==
    /\ conversations[a] = END
    /\ IF ADMIN_ID # 0 /\ a # ADMIN_ID
       THEN /\ reply' = Say(<<"acesso_negado">>, <<>>)
            /\ UNCHANGED conversations
       ELSE /\ reply' = Say(<<"digite_id">>, <<>>)
            /\ conversations' = [conversations EXCEPT ![a] = ASK_ID]
    /\ finished' = [finished EXCEPT ![a] = NotFinished]
    /\ UNCHANGED <<ADMIN_ID, user_data, pedidos>>

add_pedido_id(a, msg, db_ok) ==
    /\ conversations[a] = ASK_ID
    /\ \E text \in {sanitize_input(strip(msg), 255)} :
           IF lower(text) = GERAR
           THEN \E pid \in UuidPool :
                   /\ user_data' = [user_data EXCEPT
                                      ![a] = Put(@, "pedido", Put(EmptyDict, "id", pid))]
                   /\ reply' = Say(<<"id_gerado", "digite_cpf">>, pid)
                   /\ conversations' = [conversations EXCEPT ![a] = ASK_CPF]
           ELSE IF get_pedido_by_id(pedidos, text, db_ok) # {}
                THEN /\ reply' = Say(<<"id_ja_existe">>, <<>>)
                     /\ UNCHANGED <<user_data, conversations>>
                ELSE /\ user_data' = [user_data EXCEPT
                                        ![a] = Put(@, "pedido", Put(EmptyDict, "id", text))]
                     /\ reply' = Say(<<"digite_cpf">>, <<>>)
                     /\ conversations' = [conversations EXCEPT ![a] = ASK_CPF]
    /\ UNCHANGED <<ADMIN_ID, pedidos, finished>>

\* context.user_data['pedido'][k] = v
SetField(a, k, v) ==
    user_data' = [user_data EXCEPT ![a] = Put(@, "pedido", Put(@["pedido"], k, v))]

\* add_pedido_cpf ending the conversation on a CPF it refuses
add_pedido_cpf_GivesUp(a, msg) ==
    /\ conversations[a] = ASK_CPF
    /\ \E text \in {sanitize_input(strip(msg), 255)} :
           IF lower(text) = PULAR
           THEN /\ SetField(a, "cpf", <<>>)
                /\ reply' = Say(<<"digite_nome">>, <<>>)
                /\ conversations' = [conversations EXCEPT ![a] = ASK_NAME]
           ELSE IF ~validate_cpf(text)
                THEN /\ reply' = Say(<<"cpf_invalido">>, <<>>)
                     /\ conversations' = [conversations EXCEPT ![a] = END]
                     /\ UNCHANGED user_data
                ELSE /\ SetField(a, "cpf", OnlyDigits(text))
                     /\ reply' = Say(<<"digite_nome">>, <<>>)
                     /\ conversations' = [conversations EXCEPT ![a] = ASK_NAME]
    /\ UNCHANGED <<ADMIN_ID, pedidos, finished>>

\* add_pedido_cpf storing the digits of the text before validating them
add_pedido_cpf_StoresFirst(a, msg) ==
    /\ conversations[a] = ASK_CPF
    /\ \E text \in {sanitize_input(strip(msg), 255)} :
           IF lower(text) = PULAR
           THEN /\ SetField(a, "cpf", <<>>)
                /\ reply' = Say(<<"digite_nome">>, <<>>)
                /\ conversations' = [conversations EXCEPT ![a] = ASK_NAME]
           ELSE /\ SetField(a, "cpf", OnlyDigits(text))
                /\ IF ~validate_cpf(text)
                   THEN /\ reply' = Say(<<"cpf_invalido">>, <<>>)
                        /\ UNCHANGED conversations
                   ELSE /\ reply' = Say(<<"digite_nome">>, <<>>)
                        /\ conversations' = [conversations EXCEPT ![a] = ASK_NAME]
    /\ UNCHANGED <<ADMIN_ID, pedidos, finished>>

add_pedido_cpf(a, msg) ==
    /\ conversations[a] = ASK_CPF
    /\ \E text \in {sanitize_input(strip(msg), 255)} :
           IF lower(text) = PULAR
           THEN /\ SetField(a, "cpf", <<>>)
                /\ reply' = Say(<<"digite_nome">>, <<>>)
                /\ conversations' = [conversations EXCEPT ![a] = ASK_NAME]
           ELSE IF ~validate_cpf(text)
                THEN /\ reply' = Say(<<"cpf_invalido">>, <<>>)
                     /\ UNCHANGED <<user_data, conversations>>
                ELSE /\ SetField(a, "cpf", OnlyDigits(text))
                     /\ reply' = Say(<<"digite_nome">>, <<>>)
                     /\ conversations' = [conversations EXCEPT ![a] = ASK_NAME]
    /\ UNCHANGED <<ADMIN_ID, pedidos, finished>>

add_pedido_name(a, msg) ==
    /\ conversations[a] = ASK_NAME
    /\ \E text \in {sanitize_input(strip(msg), 200)} :
           IF Len(text) < 3
           THEN /\ reply' = Say(<<"nome_muito_curto">>, <<>>)
                /\ UNCHANGED <<user_data, conversations>>
           ELSE /\ SetField(a, "nome", text)
                /\ reply' = Say(<<"digite_produto">>, <<>>)
                /\ conversations' = [conversations EXCEPT ![a] = ASK_PRODUCT]
    /\ UNCHANGED <<ADMIN_ID, pedidos, finished>>

add_pedido_product(a, msg) ==
    /\ conversations[a] = ASK_PRODUCT
    /\ \E text \in {sanitize_input(strip(msg), 300)} :
           IF Len(text) < 3
           THEN /\ reply' = Say(<<"descricao_muito_curta">>, <<>>)
                /\ UNCHANGED <<user_data, conversations>>
           ELSE /\ SetField(a, "produto", text)
                /\ reply' = Say(<<"digite_valor">>, <<>>)
                /\ conversations' = [conversations EXCEPT ![a] = ASK_VALUE]
    /\ UNCHANGED <<ADMIN_ID, pedidos, finished>>

add_pedido_value(a, msg) ==
    /\ conversations[a] = ASK_VALUE
    /\ IF validate_value(msg) = {}
       THEN /\ reply' = Say(<<"valor_invalido">>, <<>>)
            /\ UNCHANGED <<user_data, conversations>>
       ELSE \E value \in validate_value(msg) :
               /\ SetField(a, "valor", value)
               /\ reply' = Say(<<"digite_desconto">>, <<>>)
               /\ conversations' = [conversations EXCEPT ![a] = ASK_DISCOUNT]
    /\ UNCHANGED <<ADMIN_ID, pedidos, finished>>

\* add_pedido_discount returning ASK_ECONOMY
add_pedido_discount_ToEconomy(a, msg) ==
    /\ conversations[a] = ASK_DISCOUNT
    /\ IF validate_value(msg) = {}
       THEN /\ reply' = Say(<<"desconto_invalido">>, <<>>)
            /\ UNCHANGED <<user_data, conversations>>
       ELSE \E discount \in validate_value(msg) :
               LET valor == user_data[a]["pedido"]["valor"]
               IN  IF discount > valor
                   THEN /\ reply' = Say(<<"desconto_maior_que_valor">>, <<>>)
                        /\ UNCHANGED <<user_data, conversations>>
                   ELSE /\ user_data' =
                              [user_data EXCEPT ![a] =
                                  Put(@, "pedido",
                                      Put(Put(@["pedido"], "desconto", discount),
                                          "economia", discount))]
                        /\ reply' = Say(<<"digite_trans_id">>, <<>>)
                        /\ conversations' = [conversations EXCEPT ![a] = ASK_ECONOMY]
    /\ UNCHANGED <<ADMIN_ID, pedidos, finished>>

\* add_pedido_discount without the test discount > valor
add_pedido_discount_Unchecked(a, msg) ==
    /\ conversations[a] = ASK_DISCOUNT
    /\ IF validate_value(msg) = {}
       THEN /\ reply' = Say(<<"desconto_invalido">>, <<>>)
            /\ UNCHANGED <<user_data, conversations>>
       ELSE \E discount \in validate_value(msg) :
               /\ user_data' =
                     [user_data EXCEPT ![a] =
                         Put(@, "pedido",
                             Put(Put(@["pedido"], "desconto", discount),
                                 "economia", discount))]
               /\ reply' = Say(<<"digite_trans_id">>, <<>>)
               /\ conversations' = [conversations EXCEPT ![a] = ASK_TRANSID]
    /\ UNCHANGED <<ADMIN_ID, pedidos, finished>>

add_pedido_discount(a, msg) ==
    /\ conversations[a] = ASK_DISCOUNT
    /\ IF validate_value(msg) = {}
       THEN /\ reply' = Say(<<"desconto_invalido">>, <<>>)
            /\ UNCHANGED <<user_data, conversations>>
       ELSE \E discount \in validate_value(msg) :
               LET valor == user_data[a]["pedido"]["valor"]
               IN  IF discount > valor
                   THEN /\ reply' = Say(<<"desconto_maior_que_valor">>, <<>>)
                        /\ UNCHANGED <<user_data, conversations>>
                   ELSE /\ user_data' =
                              [user_data EXCEPT ![a] =
                                  Put(@, "pedido",
                                      Put(Put(@["pedido"], "desconto", discount),
                                          "economia", discount))]
                        /\ reply' = Say(<<"digite_trans_id">>, <<>>)
                        /\ conversations' = [conversations EXCEPT ![a] = ASK_TRANSID]
    /\ UNCHANGED <<ADMIN_ID, pedidos, finished>>

add_pedido_transid(a, msg) ==
    /\ conversations[a] = ASK_TRANSID
    /\ \E text \in {sanitize_input(strip(msg), 255)} :
           /\ IF lower(text) = PULAR
              THEN SetField(a, "trans_id", <<>>)
              ELSE SetField(a, "trans_id", text)
           /\ reply' = Say(<<"digite_data">>, <<>>)
           /\ conversations' = [conversations EXCEPT ![a] = ASK_DATE_CONFIRM]
    /\ UNCHANGED <<ADMIN_ID, pedidos, finished>>

\* add_pedido_date keeping the draft and the state when the insert fails
add_pedido_date_KeepsDraft(a, msg, now, db_ok) ==
    /\ conversations[a] = ASK_DATE_CONFIRM
    /\ \E date_validated \in {validate_date(strip(msg), now)} :
          IF date_validated = <<>>
          THEN /\ reply' = Say(<<"data_invalida">>, <<>>)
               /\ UNCHANGED <<user_data, conversations, pedidos, finished>>
          ELSE LET pedido == Put(Put(user_data[a]["pedido"],
                                     "created_at", date_validated),
                                 "status", PENDENTE)
                   saved  == add_pedido_db(pedidos, pedido, now, db_ok)
               IN  /\ pedidos' = saved.table
                   /\ IF saved.ok
                      THEN /\ reply' = Say(<<"pedido_cadastrado">>, pedido["id"])
                           /\ user_data' = [user_data EXCEPT ![a] = EmptyDict]
                           /\ conversations' = [conversations EXCEPT ![a] = END]
                           /\ finished' = [finished EXCEPT
                                             ![a] = [id |-> pedido["id"], ok |-> TRUE]]
                      ELSE /\ reply' = Say(<<"erro_ao_salvar">>, <<>>)
                           /\ UNCHANGED <<user_data, conversations, finished>>
    /\ UNCHANGED ADMIN_ID

add_pedido_date(a, msg, now, db_ok) ==
    /\ conversations[a] = ASK_DATE_CONFIRM
    /\ \E date_validated \in {validate_date(strip(msg), now)} :
          IF date_validated = <<>>
          THEN /\ reply' = Say(<<"data_invalida">>, <<>>)
               /\ UNCHANGED <<user_data, conversations, pedidos, finished>>
          ELSE LET pedido == Put(Put(user_data[a]["pedido"],
                                     "created_at", date_validated),
                                 "status", PENDENTE)
                   saved  == add_pedido_db(pedidos, pedido, now, db_ok)
               IN  /\ pedidos' = saved.table
                   /\ reply' = IF saved.ok
                               THEN Say(<<"pedido_cadastrado">>, pedido["id"])
                               ELSE Say(<<"erro_ao_salvar">>, <<>>)
                   /\ user_data' = [user_data EXCEPT ![a] = EmptyDict]
                   /\ conversations' = [conversations EXCEPT ![a] = END]
                   /\ finished' = [finished EXCEPT
                                     ![a] = [id |-> pedido["id"], ok |-> saved.ok]]
    /\ UNCHANGED ADMIN_ID

\* cancel on a user_data that all users share
cancel_SharedData(a) ==
    /\ conversations[a] # END
    /\ user_data' = [b \in Actors |-> EmptyDict]
    /\ reply' = Say(<<"operacao_cancelada">>, <<>>)
    /\ conversations' = [conversations EXCEPT ![a] = END]
    /\ UNCHANGED <<ADMIN_ID, pedidos, finished>>

\* cancel without context.user_data.clear()
cancel_KeepsData(a) ==
    /\ conversations[a] # END
    /\ reply' = Say(<<"operacao_cancelada">>, <<>>)
    /\ conversations' = [conversations EXCEPT ![a] = END]
    /\ UNCHANGED <<ADMIN_ID, user_data, pedidos, finished>>

cancel(a) ==
    /\ conversations[a] # END
    /\ user_data' = [user_data EXCEPT ![a] = EmptyDict]
    /\ reply' = Say(<<"operacao_cancelada">>, <<>>)
    /\ conversations' = [conversations EXCEPT ![a] = END]
    /\ UNCHANGED <<ADMIN_ID, pedidos, finished>>

\* callbacks whose button switches the status of the order back and forth
callbacks_markdel_Toggle(pid, now, db_ok) ==
    LET delivered == \E i \in RowsWithId(pedidos, pid) : pedidos[i].status = ENTREGUE
        done == update_pedido_status(pedidos, pid,
                                     IF delivered THEN PENDENTE ELSE ENTREGUE,
                                     now, db_ok)
    IN  /\ pedidos' = done.table
        /\ reply' = IF done.ok
                    THEN Say(<<"marcado_como_entregue">>, <<>>)
                    ELSE Say(<<"erro_ao_atualizar_status">>, <<>>)
        /\ UNCHANGED <<ADMIN_ID, conversations, user_data, finished>>

\* callbacks, data = "markdel|<pid>"
callbacks_markdel(pid, now, db_ok) ==
    LET done == update_pedido_status(pedidos, pid, ENTREGUE, now, db_ok)
    IN  /\ pedidos' = done.table
        /\ reply' = IF done.ok
                    THEN Say(<<"marcado_como_entregue">>, <<>>)
                    ELSE Say(<<"erro_ao_atualizar_status">>, <<>>)
        /\ UNCHANGED <<ADMIN_ID, conversations, user_data, finished>>

\* pdf_cmd, args[0] = pid
pdf_cmd(pid, now, db_ok) ==
    LET p == get_pedido_by_id(pedidos, pid, db_ok)
    IN  /\ UNCHANGED <<ADMIN_ID, conversations, user_data, pedidos, finished>>
        /\ reply' = IF p = {}
                    THEN Say(<<"pedido_nao_encontrado">>, <<>>)
                    ELSE SendDocument(<<"gerando_pdf", "comprovante">>, pid,
                                      generate_pdf_bytes(CHOOSE r \in p : TRUE, now))

\* ' '.join(args)
RECURSIVE Join(_)
Join(args) ==
    IF args = <<>> THEN <<>>
    ELSE IF Len(args) = 1 THEN args[1]
    ELSE args[1] \o <<" ">> \o Join(Tail(args))

\* buscar_cmd, args = context.args; at most 10 of the rows found are shown
buscar_cmd(args, db_ok) ==
    /\ IF args = <<>>
       THEN reply' = Say(<<"use_buscar_termo">>, <<>>)
       ELSE \E results \in search_pedidos(pedidos, Join(args), 20, db_ok) :
               reply' = IF results = <<>>
                        THEN Say(<<"nenhum_pedido_encontrado">>, <<>>)
                        ELSE SendRows(<<"encontrados">>, Limit(results, 10))
    /\ UNCHANGED <<ADMIN_ID, conversations, user_data, pedidos, finished>>

\* listar_cmd
listar_cmd(db_ok) ==
    /\ \E rows \in list_recent(pedidos, 10, db_ok) :
          reply' = IF rows = <<>>
                   THEN Say(<<"ainda_nao_ha_pedidos">>, <<>>)
                   ELSE SendRows(<<"ultimos_10_pedidos">>, rows)
    /\ UNCHANGED <<ADMIN_ID, conversations, user_data, pedidos, finished>>

\* a caller of search_pedidos(term, limit) gets the list
search(term, limit, db_ok) ==
    /\ \E results \in search_pedidos(pedidos, term, limit, db_ok) :
          reply' = SendRows(<<"search_pedidos">>, results)
    /\ UNCHANGED <<ADMIN_ID, conversations, user_data, pedidos, finished>>

\* a caller of list_recent(limit) gets the list
listRecent(limit, db_ok) ==
    /\ \E rows \in list_recent(pedidos, limit, db_ok) :
          reply' = SendRows(<<"list_recent">>, rows)
    /\ UNCHANGED <<ADMIN_ID, conversations, user_data, pedidos, finished>>

(***************************************************************************)
(* The bot after main(): init_db() has created the empty table, no actor   *)
(* has a conversation, and ADMIN_ID is unset or names one of the actors.   *)
(***************************************************************************)
Init ==
    /\ ADMIN_ID \in {0, 1}
    /\ conversations = [a \in Actors |-> END]
    /\ user_data = [a \in Actors |-> EmptyDict]
    /\ pedidos = <<>>
    /\ reply = Say(<<>>, <<>>)
    /\ finished = [a \in Actors |-> NotFinished]

\* one update handled by the application, its text drawn from the sets of in
Handle(in) ==
    \/ \E a \in in.actors : add_pedido_start(a)
    \/ \E a \in in.actors, msg \in in.id, db_ok \in BOOLEAN : add_pedido_id(a, msg, db_ok)
    \/ \E a \in in.actors, msg \in in.cpf : add_pedido_cpf(a, msg)
    \/ \E a \in in.actors, msg \in in.nome : add_pedido_name(a, msg)
    \/ \E a \in in.actors, msg \in in.produto : add_pedido_product(a, msg)
    \/ \E a \in in.actors, msg \in in.valor : add_pedido_value(a, msg)
    \/ \E a \in in.actors, msg \in in.desconto : add_pedido_discount(a, msg)
    \/ \E a \in in.actors, msg \in in.trans_id : add_pedido_transid(a, msg)
    \/ \E a \in in.actors, msg \in in.data, now \in Times, db_ok \in BOOLEAN :
          add_pedido_date(a, msg, now, db_ok)
    \/ \E a \in in.actors : cancel(a)
    \/ \E pid \in in.pid, now \in Times, db_ok \in BOOLEAN :
          callbacks_markdel(pid, now, db_ok)

\* a receipt is asked for
Receipt(in) ==
    \E pid \in in.pid, now \in Times, db_ok \in BOOLEAN : pdf_cmd(pid, now, db_ok)

\* two actors add orders and mark them delivered
Next == Handle(Race)

Spec == Init /\ [][Next]_vars

\* one actor adds an order, marks it delivered and asks for its receipt
NextSolo == Handle(Solo) \/ Receipt(Solo)

SpecSolo == Init /\ [][NextSolo]_vars

(***************************************************************************)
(* /add_pedido sent by an actor who is in a conversation.  conv_handler is *)
(* built without allow_reentry, so its entry point is not looked at; the   *)
(* handlers of the states take text that is no command and the only        *)
(* fallback is /cancel; no other handler of the application takes          *)
(* /add_pedido.  The update is dropped: nothing is answered and nothing    *)
(* changes.                                                                *)
(***************************************************************************)
add_pedido_in_conversation(a) ==
    /\ conversations[a] # END
    /\ reply' = Say(<<>>, <<>>)
    /\ UNCHANGED <<ADMIN_ID, conversations, user_data, pedidos, finished>>

\* one actor who also sends /add_pedido in the middle of the dialogue
Again == [Race EXCEPT !.actors = {1}]

NextAgain ==
    \/ Handle(Again)
    \/ \E a \in Again.actors : add_pedido_in_conversation(a)

SpecAgain == Init /\ [][NextAgain]_vars

(***************************************************************************)
(* The bot started on a database that earlier conversations filled: the    *)
(* queries /buscar, /listar and /pdf, search_pedidos and list_recent.      *)
(***************************************************************************)
\* the table has at most MaxRows rows
MaxRows == 3

\* the limits passed to search_pedidos and list_recent are 0..MaxLimit
MaxLimit == 2

\* texts of earlier conversations: id, CPF, name and date of four orders
Orders ==
    {[id |-> <<"A", "1">>, cpf |-> <<"P", "u", "l", "a", "r">>, nome |-> <<"A", "n", "a", " ", "L", "i", "m", "a">>,
      data |-> <<"0", "1", "/", "0", "2", "/", "2", "0", "2", "4", " ", "1", "0", ":", "0", "0", ":", "0", "0">>],
     [id |-> <<"a", "2">>, cpf |-> <<"1", "2", "3", ".", "4", "5", "6", ".", "7", "8", "9", "-", "0", "1">>, nome |-> <<"A", "N", "A">>,
      data |-> <<"1", "5", "/", "0", "1", "/", "2", "0", "2", "4", " ", "1", "0", ":", "0", "0", ":", "0", "0">>],
     [id |-> <<"B", "_", "3">>, cpf |-> <<"p", "u", "l", "a", "r">>, nome |-> <<"B", "o", "b">>,
      data |-> <<"1", "/", "2", "/", "2", "0", "2", "4", " ", "1", "0", ":", "0", "0", ":", "0", "0">>],
     [id |-> <<"b", "1", "3">>, cpf |-> <<"p", "u", "l", "a", "r">>, nome |-> <<"A", "l", "%">>,
      data |-> <<"3", "1", "/", "1", "2", "/", "2", "0", "2", "3", " ", "2", "3", ":", "5", "9", ":", "5", "9">>]}

\* context.user_data['pedido'] after the eight steps accepted the texts of o
PedidoOf(o) ==
    [id         |-> sanitize_input(strip(o.id), 255),
     cpf        |-> IF lower(o.cpf) = PULAR THEN <<>> ELSE OnlyDigits(o.cpf),
     nome       |-> sanitize_input(strip(o.nome), 200),
     produto    |-> <<"M", "o", "u", "s", "e">>,
     valor      |-> 1000,
     desconto   |-> 0,
     economia   |-> 0,
     trans_id   |-> <<>>,
     created_at |-> validate_date(strip(o.data), ClockTime(0)),
     status     |-> PENDENTE]

\* the tables that at most n successful add_pedido_db leave
RECURSIVE TablesOf(_)
TablesOf(n) ==
    IF n = 0 THEN {<<>>}
    ELSE TablesOf(n - 1)
         \cup {add_pedido_db(t, PedidoOf(o), ClockTime(0), TRUE).table :
                  t \in TablesOf(n - 1), o \in Orders}

\* context.args of /buscar
SearchArgs ==
    {<<>>, <<<<"A">>>>, <<<<"a", "n">>>>, <<<<"B", "_", "3">>>>, <<<<"%">>>>, <<<<"3", "4", "5">>>>, <<<<"z", "z">>>>,
     <<<<"A", "n", "a">>, <<"L">>>>}

InitQuery ==
    /\ ADMIN_ID \in {0, 1}
    /\ conversations = [a \in Actors |-> END]
    /\ user_data = [a \in Actors |-> EmptyDict]
    /\ pedidos \in TablesOf(MaxRows)
    /\ reply = Say(<<>>, <<>>)
    /\ finished = [a \in Actors |-> NotFinished]

NextQuery ==
    \/ \E args \in SearchArgs, db_ok \in BOOLEAN : buscar_cmd(args, db_ok)
    \/ \E db_ok \in BOOLEAN : listar_cmd(db_ok)
    \/ \E args \in SearchArgs \ {<<>>}, limit \in 0..MaxLimit, db_ok \in BOOLEAN :
          search(Join(args), limit, db_ok)
    \/ \E limit \in 0..MaxLimit, db_ok \in BOOLEAN : listRecent(limit, db_ok)
    \/ \E o \in Orders, now \in Times, db_ok \in BOOLEAN :
          pdf_cmd(sanitize_input(strip(o.id), 255), now, db_ok)

SpecQuery == InitQuery /\ [][NextQuery]_vars

(***************************************************************************)
(* The workflow of the specification in terms of the handlers' state.      *)
(***************************************************************************)
\* the eight Awaiting states, in the order of the dialogue, then the end
StepOrder ==
    <<ASK_ID, ASK_CPF, ASK_NAME, ASK_PRODUCT, ASK_VALUE, ASK_DISCOUNT,
      ASK_TRANSID, ASK_DATE_CONFIRM, END>>

Awaiting == {StepOrder[i] : i \in 1..8}

Successor(st) == StepOrder[(CHOOSE i \in 1..8 : StepOrder[i] = st) + 1]

\* the draft of actor a: user_data['pedido'], empty when there is none
Draft(a) ==
    IF HasKey(user_data[a], "pedido") THEN user_data[a]["pedido"] ELSE EmptyDict

\* actor a's conversation ended with a finalization (not with /cancel)
Finalized(a) == conversations[a] = END /\ finished[a] # NotFinished

\* the id of a finished conversation was typed by the actor, not generated
TypedId(a) == finished[a].id \notin UuidPool

(***************************************************************************)
(* C1: in every reachable state, under any interleaving of the actors'     *)
(* dialogues, finalizations and status updates, no two rows of pedidos     *)
(* have the same id.                                                       *)
(***************************************************************************)
C1_UniqueIds ==
    \A i, j \in 1..Len(pedidos) : i # j => pedidos[i].id # pedidos[j].id

\* two orders are stored and the insert of a third, whose id is taken, was
\* refused
C1_Witness ==
    /\ Len(pedidos) = 2
    /\ reply.msgs = <<"erro_ao_salvar">>
    /\ \E a \in Actors :
          /\ Finalized(a) /\ ~finished[a].ok
          /\ RowsWithId(pedidos, finished[a].id) # {}

(***************************************************************************)
(* C2 as stated: when the conversations of two different actors were both  *)
(* given the same typed id and both reached finalization, exactly one of   *)
(* the two reported success.                                               *)
(***************************************************************************)
C2_ExactlyOneSucceeds ==
    \A a, b \in Actors :
       (/\ a # b
        /\ Finalized(a) /\ Finalized(b)
        /\ finished[a].id = finished[b].id
        /\ TypedId(a))
       => (finished[a].ok # finished[b].ok)

(***************************************************************************)
(* C2 as amended: of two such finalizations at most one reports success;   *)
(* a finalization that runs while a row with its id is stored reports the  *)
(* failure and leaves the table as it was; one that runs while no row has  *)
(* its id succeeds and appends its row when sqlite3 does not raise, and    *)
(* reports the failure and leaves the table as it was when it does.        *)
(***************************************************************************)
C2_AtMostOneSucceeds ==
    \A a, b \in Actors :
       (/\ a # b
        /\ Finalized(a) /\ Finalized(b)
        /\ finished[a].id = finished[b].id
        /\ TypedId(a))
       => ~(finished[a].ok /\ finished[b].ok)

C2_FinalizeStep ==
    \A a \in Actors :
       (conversations[a] = ASK_DATE_CONFIRM /\ conversations'[a] = END) =>
       \A msg \in Race.data, now \in Times, db_ok \in BOOLEAN :
       add_pedido_date(a, msg, now, db_ok)
       => LET X == Draft(a)["id"]
          IN  IF RowsWithId(pedidos, X) # {} \/ ~db_ok
              THEN /\ reply'.msgs = <<"erro_ao_salvar">>
                   /\ pedidos' = pedidos
              ELSE /\ reply'.msgs = <<"pedido_cadastrado">>
                   /\ reply'.pid = X
                   /\ Len(pedidos') = Len(pedidos) + 1
                   /\ SubSeq(pedidos', 1, Len(pedidos)) = pedidos
                   /\ pedidos'[Len(pedidos')].id = X

C2_DuplicateIdRace == [](C2_AtMostOneSucceeds) /\ [][C2_FinalizeStep]_vars

\* both actors typed the same id; the first finalization stored the row,
\* the second was refused and the row is the one the first stored
C2_Witness ==
    \E a, b \in Actors :
       /\ a # b
       /\ Finalized(a) /\ Finalized(b)
       /\ finished[a].id = finished[b].id
       /\ TypedId(a)
       /\ finished[a].ok /\ ~finished[b].ok
       /\ Cardinality(RowsWithId(pedidos, finished[a].id)) = 1

(***************************************************************************)
(* C3: an actor's state is always one of the eight Awaiting states or the  *)
(* end; whenever it changes, the change is /add_pedido starting at ASK_ID, *)
(* a step handler moving to the state that follows in the dialogue (from   *)
(* ASK_DATE_CONFIRM to the end, with the finalization recorded, and        *)
(* nowhere else a finalization), or /cancel ending the conversation.       *)
(***************************************************************************)
C3_States == \A a \in Actors : conversations[a] \in Awaiting \cup {END}

C3_Step ==
    \A a \in Actors :
       /\ conversations'[a] # conversations[a] =>
            \/ /\ conversations[a] = END
               /\ conversations'[a] = ASK_ID
               /\ reply'.msgs = <<"digite_id">>
            \/ /\ conversations[a] \in Awaiting
               /\ conversations'[a] = Successor(conversations[a])
               /\ reply'.msgs # <<"operacao_cancelada">>
               /\ (conversations'[a] = END) = (finished'[a] # NotFinished)
            \/ /\ conversations[a] \in Awaiting
               /\ conversations'[a] = END
               /\ reply'.msgs = <<"operacao_cancelada">>
               /\ finished'[a] = NotFinished
       /\ (finished'[a] # finished[a] /\ finished'[a] # NotFinished) =>
            /\ conversations[a] = ASK_DATE_CONFIRM
            /\ conversations'[a] = END

C3_LinearWorkflow == [](C3_States) /\ [][C3_Step]_vars

\* one actor went through the eight steps to a stored order while the other
\* is at the discount step
C3_Witness ==
    \E a, b \in Actors :
       /\ Finalized(a) /\ finished[a].ok
       /\ conversations[b] = ASK_DISCOUNT

(***************************************************************************)
(* C4: a step that answers with one of the messages asking to type the     *)
(* value again leaves every actor's state, every draft and the table as    *)
(* they were.                                                              *)
(***************************************************************************)
Reprompts ==
    {<<"id_ja_existe">>, <<"cpf_invalido">>, <<"nome_muito_curto">>,
     <<"descricao_muito_curta">>, <<"valor_invalido">>, <<"desconto_invalido">>,
     <<"desconto_maior_que_valor">>, <<"data_invalida">>}

C4_Reprompt ==
    reply'.msgs \in Reprompts => UNCHANGED <<conversations, user_data, pedidos>>

C4_RepromptChangesNothing == [][C4_Reprompt]_vars

\* an order is stored, and an actor whose draft has every field up to the
\* transaction id has just been asked for the date again
C4_Witness ==
    /\ reply.msgs = <<"data_invalida">>
    /\ Len(pedidos) >= 1
    /\ \E a \in Actors :
          /\ conversations[a] = ASK_DATE_CONFIRM
          /\ HasKey(Draft(a), "trans_id")

(***************************************************************************)
(* The values Python computes for the texts of Solo (a rejected text has   *)
(* the value of OTHER).                                                    *)
(***************************************************************************)
\* round(float(...), 2) in cents
AmountOf(msg) ==
    CASE msg = <<"1", "5", "0", ",", "0", "0">> -> 15000
      [] msg = <<"R", "$", " ", "8", "9", ".", "9", "0">> -> 8990
      [] msg = <<"1", "0">> -> 1000
      [] msg = <<"8", "9", ",", "9", "0", "4">> -> 8990
      [] msg = <<"8", "9", ",", "9", "0", "6">> -> 8991
      [] OTHER -> -1

\* re.sub(r'\D', '', cpf), or '' for 'pular'
CpfOf(msg) ==
    CASE msg = <<"P", "u", "l", "a", "r">> -> <<>>
      [] msg = <<" ", " ">> -> <<>>
      [] msg = <<"1", "2", "3", ".", "4", "5", "6", ".", "7", "8", "9", "-", "0", "1">> -> <<"1", "2", "3", "4", "5", "6", "7", "8", "9", "0", "1">>
      [] OTHER -> <<"?">>

NameOf(msg) == CASE msg = <<"M", "a", "r", "i", "a", " ", "S", "i", "l", "v", "a", " ">> -> <<"M", "a", "r", "i", "a", " ", "S", "i", "l", "v", "a">> [] OTHER -> <<"?">>

ProductOf(msg) == CASE msg = <<" ", "W", "i", "r", "e", "l", "e", "s", "s", " ", "M", "o", "u", "s", "e">> -> <<"W", "i", "r", "e", "l", "e", "s", "s", " ", "M", "o", "u", "s", "e">> [] OTHER -> <<"?">>

TransIdOf(msg) ==
    CASE msg = <<"P", "U", "L", "A", "R">> -> <<>>
      [] msg = <<" ", "T", "X", "9">> -> <<"T", "X", "9">>
      [] OTHER -> <<"?">>

DateOf(msg, now) ==
    CASE msg = <<"a", "g", "o", "r", "a">> -> strftime(now)
      [] msg = <<"1", "/", "2", "/", "2", "0", "2", "4", " ", "1", ":", "0", ":", "0">> -> <<"0", "1", "/", "0", "2", "/", "2", "0", "2", "4", " ", "0", "1", ":", "0", "0", ":", "0", "0">>
      [] OTHER -> <<"?">>

\* f"R$ {valor - desconto:.2f}"
FinalValueOf(valor, desconto) ==
    CASE valor = 15000 /\ desconto = 1000 -> <<"R", "$", " ", "1", "4", "0", ".", "0", "0">>
      [] valor = 15000 /\ desconto = 8990 -> <<"R", "$", " ", "6", "0", ".", "1", "0">>
      [] valor = 15000 /\ desconto = 8991 -> <<"R", "$", " ", "6", "0", ".", "0", "9">>
      [] valor = 8990 /\ desconto = 1000 -> <<"R", "$", " ", "7", "9", ".", "9", "0">>
      [] valor = 8990 /\ desconto = 8990 -> <<"R", "$", " ", "0", ".", "0", "0">>
      [] OTHER -> <<"?">>

(***************************************************************************)
(* C5: at ASK_DISCOUNT a text whose amount is greater than the draft's     *)
(* valor is rejected: the actor stays at ASK_DISCOUNT, the draft keeps its *)
(* valor and gets neither desconto nor economia.                           *)
(***************************************************************************)
C5_Rejected ==
    \A a \in Solo.actors :
       conversations[a] = ASK_DISCOUNT =>
       \A msg \in Solo.desconto :
       (add_pedido_discount(a, msg) /\ AmountOf(msg) > Draft(a)["valor"])
       => /\ reply'.msgs = <<"desconto_maior_que_valor">>
          /\ conversations'[a] = ASK_DISCOUNT
          /\ user_data'[a]["pedido"]["valor"] = Draft(a)["valor"]
          /\ ~HasKey(user_data'[a]["pedido"], "desconto")
          /\ ~HasKey(user_data'[a]["pedido"], "economia")

C5_DiscountAboveGross == [][C5_Rejected]_vars

\* a discount of 89.91 was refused for an order of 89.90
C5_Witness ==
    /\ reply.msgs = <<"desconto_maior_que_valor">>
    /\ \E a \in Solo.actors :
          /\ conversations[a] = ASK_DISCOUNT
          /\ Draft(a)["valor"] = 8990
          /\ ~HasKey(Draft(a), "desconto")

(***************************************************************************)
(* C6: every row of pedidos has 0 <= desconto <= valor, whatever dialogues,*)
(* cancellations, finalizations and status updates came before.            *)
(***************************************************************************)
C6_DiscountWithinGross ==
    \A i \in 1..Len(pedidos) :
       0 <= pedidos[i].desconto /\ pedidos[i].desconto <= pedidos[i].valor

\* a stored order whose discount equals its value has been marked delivered
C6_Witness ==
    \E i \in 1..Len(pedidos) :
       /\ pedidos[i].desconto = pedidos[i].valor
       /\ pedidos[i].valor = 8990
       /\ pedidos[i].status = ENTREGUE

(***************************************************************************)
(* C7: /cancel is handled in each of the eight Awaiting states; it ends    *)
(* the conversation without a finalization, empties the actor's user_data  *)
(* and leaves the table as it was, so no row has the draft's id unless it  *)
(* had before.                                                             *)
(***************************************************************************)
C7_Enabled == \A a \in Actors : conversations[a] \in Awaiting => ENABLED cancel(a)

C7_Cancel ==
    \A a \in Actors :
       cancel(a) => /\ conversations[a] \in Awaiting
                    /\ conversations'[a] = END
                    /\ finished'[a] = NotFinished
                    /\ user_data'[a] = EmptyDict
                    /\ pedidos' = pedidos
                    /\ reply'.msgs = <<"operacao_cancelada">>

C7_CancelDiscardsDraft == [](C7_Enabled) /\ [][C7_Cancel]_vars

\* an actor cancelled, and the table holds only the other actor's order
C7_Witness ==
    /\ reply.msgs = <<"operacao_cancelada">>
    /\ Len(pedidos) = 1
    /\ \E a, b \in Actors :
          /\ conversations[a] = END /\ finished[a] = NotFinished
          /\ user_data[a] = EmptyDict
          /\ Finalized(b) /\ finished[b].ok

(***************************************************************************)
(* C8: a date accepted at ASK_DATE_CONFIRM finalizes at once.  Afterwards  *)
(* the conversation is over and user_data is empty, whether the insert     *)
(* succeeded or not; on success the row is appended and the answer is the  *)
(* confirmation carrying the order's id; on failure the answer is the      *)
(* error and the table is as it was.                                       *)
(***************************************************************************)
C8_Finalize ==
    \A a \in Actors :
       (conversations[a] = ASK_DATE_CONFIRM /\ reply'.msgs # <<"data_invalida">>) =>
       \A msg \in Race.data, now \in Times, db_ok \in BOOLEAN :
       add_pedido_date(a, msg, now, db_ok)
       => /\ conversations'[a] = END
          /\ user_data'[a] = EmptyDict
          /\ finished'[a] # NotFinished
          /\ \/ /\ finished'[a].ok
                /\ reply'.msgs = <<"pedido_cadastrado">>
                /\ reply'.pid = Draft(a)["id"]
                /\ Len(pedidos') = Len(pedidos) + 1
                /\ pedidos'[Len(pedidos')].id = Draft(a)["id"]
             \/ /\ ~finished'[a].ok
                /\ reply'.msgs = <<"erro_ao_salvar">>
                /\ pedidos' = pedidos

C8_FinalizationEndsSession == [][C8_Finalize]_vars

\* a finalization failed on an empty table: the draft is gone, nothing stored
C8_Witness ==
    /\ reply.msgs = <<"erro_ao_salvar">>
    /\ pedidos = <<>>
    /\ \E a \in Actors :
          /\ Finalized(a) /\ ~finished[a].ok
          /\ user_data[a] = EmptyDict

(***************************************************************************)
(* C9: each accepting step puts into the draft the validated value of the  *)
(* text and changes no other field; a successful finalization appends the  *)
(* row that has the draft's id, cpf, nome, produto, valor, desconto and    *)
(* trans_id, the validated date, economia equal to desconto and status     *)
(* 'pendente'; and whenever the last answer is the receipt of an order,    *)
(* its final value is valor - desconto of the order's row.                 *)
(***************************************************************************)
C9_Steps ==
    \A a \in Solo.actors :
       LET D  == Draft(a)
           D2 == user_data'[a]["pedido"]
           Accepts(st) == conversations[a] = st /\ conversations'[a] = Successor(st)
       IN  /\ Accepts(ASK_ID) =>
                \A msg \in Solo.id :
                   add_pedido_id(a, msg, TRUE) => D2 = Put(EmptyDict, "id", <<"O", "R", "D", "1">>)
           /\ Accepts(ASK_CPF) =>
                \A msg \in Solo.cpf :
                   add_pedido_cpf(a, msg) => D2 = Put(D, "cpf", CpfOf(msg))
           /\ Accepts(ASK_NAME) =>
                \A msg \in Solo.nome :
                   add_pedido_name(a, msg) => D2 = Put(D, "nome", NameOf(msg))
           /\ Accepts(ASK_PRODUCT) =>
                \A msg \in Solo.produto :
                   add_pedido_product(a, msg) => D2 = Put(D, "produto", ProductOf(msg))
           /\ Accepts(ASK_VALUE) =>
                \A msg \in Solo.valor :
                   add_pedido_value(a, msg) => D2 = Put(D, "valor", AmountOf(msg))
           /\ Accepts(ASK_DISCOUNT) =>
                \A msg \in Solo.desconto :
                   add_pedido_discount(a, msg)
                   => D2 = Put(Put(D, "desconto", AmountOf(msg)),
                               "economia", AmountOf(msg))
           /\ Accepts(ASK_TRANSID) =>
                \A msg \in Solo.trans_id :
                   add_pedido_transid(a, msg) => D2 = Put(D, "trans_id", TransIdOf(msg))

C9_Stored ==
    \A a \in Solo.actors :
       (conversations[a] = ASK_DATE_CONFIRM /\ pedidos' # pedidos) =>
       \A msg \in Solo.data, now \in Times, db_ok \in BOOLEAN :
       add_pedido_date(a, msg, now, db_ok)
       => LET D == Draft(a)
              r == pedidos'[Len(pedidos')]
          IN  /\ Len(pedidos') = Len(pedidos) + 1
              /\ SubSeq(pedidos', 1, Len(pedidos)) = pedidos
              /\ DOMAIN D = {"id", "cpf", "nome", "produto", "valor", "desconto",
                             "economia", "trans_id"}
              /\ r.id = D["id"]
              /\ r.cpf = D["cpf"]
              /\ r.nome = D["nome"]
              /\ r.produto = D["produto"]
              /\ r.valor = D["valor"]
              /\ r.desconto = D["desconto"]
              /\ r.trans_id = D["trans_id"]
              /\ r.created_at = DateOf(msg, now)
              /\ r.economia = r.desconto
              /\ r.status = PENDENTE

C9_Rendered ==
    reply.msgs = <<"gerando_pdf", "comprovante">> =>
       /\ RowsWithId(pedidos, reply.pid) # {}
       /\ \A i \in RowsWithId(pedidos, reply.pid) :
             reply.doc.valor_final = FinalValueOf(pedidos[i].valor, pedidos[i].desconto)

C9_StoredAsValidated == [](C9_Rendered) /\ [][C9_Steps /\ C9_Stored]_vars

\* the receipt of the pending order of 150.00 with discount 89.91, typed
\* with a formatted CPF and an explicit date, shows R$ 60.09
C9_Witness ==
    /\ reply.msgs = <<"gerando_pdf", "comprovante">>
    /\ reply.doc.valor_final = <<"R", "$", " ", "6", "0", ".", "0", "9">>
    /\ \E i \in 1..Len(pedidos) :
          /\ pedidos[i].id = reply.pid
          /\ pedidos[i].cpf = <<"1", "2", "3", "4", "5", "6", "7", "8", "9", "0", "1">>
          /\ pedidos[i].created_at = <<"0", "1", "/", "0", "2", "/", "2", "0", "2", "4", " ", "0", "1", ":", "0", "0", ":", "0", "0">>
          /\ pedidos[i].economia = 8991
          /\ pedidos[i].status = PENDENTE

(***************************************************************************)
(* C10 as stated: marking as delivered an id that no row has answers with  *)
(* the error and leaves the table as it was.                               *)
(***************************************************************************)
C10_Update ==
    \A pid \in Race.pid :
       RowsWithId(pedidos, pid) = {} =>
       \A now \in Times, db_ok \in BOOLEAN :
       callbacks_markdel(pid, now, db_ok)
       => /\ reply'.msgs = <<"erro_ao_atualizar_status">>
          /\ pedidos' = pedidos

C10_UnknownIdFails == [][C10_Update]_vars

(***************************************************************************)
(* The moment a stored created_at names, and its order in time.            *)
(***************************************************************************)
When(row) == CHOOSE dt \in strptime(row.created_at) : TRUE

Before(x, y) ==
    LET a == <<x.Y, x.m, x.d, x.H, x.M, x.S>>
        b == <<y.Y, y.m, y.d, y.H, y.M, y.S>>
    IN  \E i \in 1..6 : a[i] < b[i] /\ \A j \in 1..(i - 1) : a[j] = b[j]

\* the answers that carry the rows of search_pedidos or list_recent
SearchAnswers == {<<"search_pedidos">>, <<"encontrados">>}

ListAnswers == {<<"list_recent">>, <<"ultimos_10_pedidos">>}

NoRowTwice(rows) ==
    \A k, l \in 1..Len(rows) : k # l => rows[k].id # rows[l].id

Min(m, n) == IF m <= n THEN m ELSE n

(***************************************************************************)
(* C11 as stated: in every list that search_pedidos or list_recent         *)
(* returns, no row is listed before a row that was created later.          *)
(***************************************************************************)
C11_NewestFirst ==
    reply.msgs \in SearchAnswers \cup ListAnswers =>
       \A k, l \in 1..Len(reply.rows) :
          k < l => ~Before(When(reply.rows[k]), When(reply.rows[l]))

(***************************************************************************)
(* C12: on every table the bot can stand on, search_pedidos(term, limit)   *)
(* returns at most limit rows, whether the SELECT succeeds or not;         *)
(* list_recent(limit) returns exactly min(limit, number of rows of the     *)
(* table) rows when its SELECT succeeds (it returns none when sqlite3      *)
(* raises); no row is twice in either list and every row is one of the     *)
(* table; the lists handed to the callers and the lists /buscar and        *)
(* /listar show (at most 10 rows) are of this kind.                        *)
(***************************************************************************)
FromTable(rows) ==
    \A k \in 1..Len(rows) : \E i \in 1..Len(pedidos) : pedidos[i] = rows[k]

C12_Search ==
    \A args \in SearchArgs \ {<<>>}, limit \in 0..MaxLimit, db_ok \in BOOLEAN :
       \A results \in search_pedidos(pedidos, Join(args), limit, db_ok) :
          /\ Len(results) <= limit
          /\ NoRowTwice(results)
          /\ FromTable(results)

C12_ListRecent ==
    \A limit \in 0..MaxLimit :
       /\ \A rows \in list_recent(pedidos, limit, TRUE) :
             /\ Len(rows) = Min(limit, Len(pedidos))
             /\ NoRowTwice(rows)
             /\ FromTable(rows)
       /\ list_recent(pedidos, limit, FALSE) = {<<>>}

C12_Answers ==
    reply.msgs \in {<<"search_pedidos">>, <<"list_recent">>} =>
       /\ Len(reply.rows) <= MaxLimit
       /\ NoRowTwice(reply.rows)
       /\ FromTable(reply.rows)

C12_Commands ==
    reply.msgs \in {<<"encontrados">>, <<"ultimos_10_pedidos">>} =>
       /\ Len(reply.rows) <= 10
       /\ NoRowTwice(reply.rows)
       /\ FromTable(reply.rows)

C13_Generate ==
    \A a \in Actors :
       conversations[a] = ASK_ID =>
       \A msg \in Race.id, db_ok \in BOOLEAN :
          (lower(strip(msg)) = GERAR /\ add_pedido_id(a, msg, db_ok))
          => /\ conversations'[a] = ASK_CPF
             /\ HasKey(user_data'[a], "pedido")
             /\ HasKey(user_data'[a]["pedido"], "id")
             /\ RowsWithId(pedidos, user_data'[a]["pedido"]["id"]) = {}

C14_TypedId ==
    \A a \in Actors :
       conversations[a] = ASK_ID =>
       \A msg \in Race.id, db_ok \in BOOLEAN :
          (lower(strip(msg)) # GERAR /\ add_pedido_id(a, msg, db_ok))
          => IF RowsWithId(pedidos, strip(msg)) # {}
             THEN /\ conversations'[a] = ASK_ID
                  /\ user_data'[a] = user_data[a]
             ELSE /\ conversations'[a] = ASK_CPF
                  /\ user_data'[a]["pedido"] = Put(EmptyDict, "id", strip(msg))

C14_StoredIdIsRefused == [][C14_TypedId]_vars

(***************************************************************************)
(* C15: when ADMIN_ID is configured (not 0), /add_pedido from any other    *)
(* actor is answered with the access-denied message and opens no           *)
(* conversation; such an actor never has a conversation or a draft; and a  *)
(* row enters the table only in the final step of ADMIN_ID's conversation. *)
(***************************************************************************)
Others == Actors \ {ADMIN_ID}

C15_Denied ==
    ADMIN_ID # 0 =>
    \A a \in Others :
       add_pedido_start(a) => /\ reply'.msgs = <<"acesso_negado">>
                              /\ conversations'[a] = END
                              /\ user_data'[a] = EmptyDict

C15_NoSession ==
    ADMIN_ID # 0 =>
    \A a \in Others : /\ conversations[a] = END
                      /\ user_data[a] = EmptyDict
                      /\ finished[a] = NotFinished

C15_InsertByOperator ==
    (ADMIN_ID # 0 /\ Len(pedidos') > Len(pedidos)) =>
    /\ conversations[ADMIN_ID] = ASK_DATE_CONFIRM
    /\ \E msg \in Race.data, now \in Times : add_pedido_date(ADMIN_ID, msg, now, TRUE)

C15_OnlyOperatorAdds ==
    [](C15_NoSession) /\ [][C15_Denied /\ C15_InsertByOperator]_vars

\* another actor is denied after the operator has stored an order
C15_Witness ==
    /\ ADMIN_ID # 0
    /\ reply.msgs = <<"acesso_negado">>
    /\ Len(pedidos) > 0

(***************************************************************************)
(* C16: the table changes in two ways only.  A row is appended by the      *)
(* final step of a conversation that stood at ASK_DATE_CONFIRM with a      *)
(* draft holding the values accepted at all the steps before, and that     *)
(* ends as saved; or the rows with one id get a new status and updated_at  *)
(* while every other column and every other row stay as they were.  No row *)
(* is ever removed.                                                        *)
(***************************************************************************)
DraftKeys == {"id", "cpf", "nome", "produto", "valor", "desconto", "trans_id"}

C16_Inserted ==
    /\ Len(pedidos') = Len(pedidos) + 1
    /\ SubSeq(pedidos', 1, Len(pedidos)) = pedidos
    /\ \E a \in Actors :
          /\ conversations[a] = ASK_DATE_CONFIRM
          /\ conversations'[a] = END
          /\ finished'[a] = [id |-> pedidos'[Len(pedidos')].id, ok |-> TRUE]
          /\ \A k \in DraftKeys : /\ HasKey(Draft(a), k)
                                  /\ pedidos'[Len(pedidos')][k] = Draft(a)[k]
          /\ pedidos'[Len(pedidos')].status = PENDENTE

C16_StatusUpdated ==
    /\ Len(pedidos') = Len(pedidos)
    /\ \E pid \in {pedidos[i].id : i \in 1..Len(pedidos)} :
          \A i \in 1..Len(pedidos) :
             IF pedidos[i].id = pid
             THEN pedidos'[i] = [pedidos[i] EXCEPT !.status = pedidos'[i].status,
                                                   !.updated_at = pedidos'[i].updated_at]
             ELSE pedidos'[i] = pedidos[i]

C16_TableChange == pedidos' # pedidos => C16_Inserted \/ C16_StatusUpdated

C16_InsertOnlyByFinalization == [][C16_TableChange]_vars

\* one of two stored orders has been marked delivered
C16_Witness ==
    \E i, j \in 1..Len(pedidos) : /\ pedidos[i].status = ENTREGUE
                                  /\ pedidos[j].status = PENDENTE

(***************************************************************************)
(* C17 as stated: a read of the table in which sqlite3 raises is answered  *)
(* as a failure, never with the answer of a read that found nothing: /pdf  *)
(* does not say the order was not found, /buscar does not say that no      *)
(* order matched, /listar does not say that there are no orders, and       *)
(* search_pedidos and list_recent do not hand their caller the empty list. *)
(***************************************************************************)
C17_ReadFailure ==
    /\ \A o \in Orders, now \in Times :
          pdf_cmd(sanitize_input(strip(o.id), 255), now, FALSE)
          => reply'.msgs # <<"pedido_nao_encontrado">>
    /\ \A args \in SearchArgs \ {<<>>} :
          buscar_cmd(args, FALSE) => reply'.msgs # <<"nenhum_pedido_encontrado">>
    /\ listar_cmd(FALSE) => reply'.msgs # <<"ainda_nao_ha_pedidos">>
    /\ \A args \in SearchArgs \ {<<>>}, limit \in 0..MaxLimit :
          search(Join(args), limit, FALSE) => reply'.rows # <<>>
    /\ \A limit \in 0..MaxLimit :
          listRecent(limit, FALSE) => reply'.rows # <<>>

C17_StoreFailureIsSurfaced == [][C17_ReadFailure]_vars

(***************************************************************************)
(* C18 as stated: the cpf of every row is empty or has exactly 11 digits;  *)
(* at ASK_CPF the keyword for skipping puts the empty cpf into the draft,  *)
(* any other text is accepted only when its digits are exactly 11, and     *)
(* then these digits are what the draft gets; every other text is answered *)
(* with the request to type the cpf again and changes nothing.             *)
(***************************************************************************)
ElevenDigits(s) == Len(s) = 11 /\ \A i \in 1..Len(s) : IsDigit(s[i])

C18_Stored ==
    \A i \in 1..Len(pedidos) : pedidos[i].cpf = <<>> \/ ElevenDigits(pedidos[i].cpf)

C18_Step ==
    \A a \in Actors :
       conversations[a] = ASK_CPF =>
       \A msg \in Solo.cpf :
          add_pedido_cpf(a, msg)
          => IF lower(strip(msg)) = PULAR
             THEN /\ conversations'[a] = ASK_NAME
                  /\ Draft(a)' = Put(Draft(a), "cpf", <<>>)
             ELSE IF Len(OnlyDigits(msg)) = 11
                  THEN /\ conversations'[a] = ASK_NAME
                       /\ Draft(a)' = Put(Draft(a), "cpf", OnlyDigits(msg))
                  ELSE /\ reply'.msgs = <<"cpf_invalido">>
                       /\ UNCHANGED <<conversations, user_data>>

C18_TaxIdElevenDigits == [](C18_Stored) /\ [][C18_Step]_vars

(***************************************************************************)
(* C19 as stated: search_pedidos(term, limit) returns only rows whose id,  *)
(* cpf or nome contains term letter for letter, in the same letter case    *)
(* and with every character of term standing for itself; and when the      *)
(* SELECT succeeds and the limit is not reached, it returns every such row.*)
(***************************************************************************)
Contains(text, term) ==
    \E i \in 1..(Len(text) - Len(term) + 1) : SubSeq(text, i, i + Len(term) - 1) = term

Matches(row, term) ==
    Contains(row.id, term) \/ Contains(row.cpf, term) \/ Contains(row.nome, term)

C19_Search ==
    \A args \in SearchArgs \ {<<>>}, limit \in 0..MaxLimit :
       /\ \A db_ok \in BOOLEAN :
             search(Join(args), limit, db_ok)
             => \A k \in 1..Len(reply'.rows) : Matches(reply'.rows[k], Join(args))
       /\ (search(Join(args), limit, TRUE) /\ Len(reply'.rows) < limit)
          => \A i \in 1..Len(pedidos) :
                Matches(pedidos[i], Join(args))
                => \E k \in 1..Len(reply'.rows) : reply'.rows[k] = pedidos[i]

C19_CaseSensitiveSubstring == [][C19_Search]_vars

(***************************************************************************)
(* C20 as stated: at ASK_DATE_CONFIRM both "agora" and "now", in any       *)
(* letter case, end the conversation with an order dated with the current  *)
(* time; any other text ends it only when it is a date and time that       *)
(* exists, written exactly as DD/MM/YYYY HH:MM:SS; every other text (such  *)
(* as 31/02/2024 10:00:00) is answered with the request to type the date   *)
(* again and changes nothing.                                              *)
(***************************************************************************)
DateKeywords == {<<"a", "g", "o", "r", "a">>, <<"n", "o", "w">>}

\* s is DD/MM/YYYY HH:MM:SS, digit for digit, and names a moment that exists
ExactDate(s) ==
    /\ Len(s) = 19
    /\ s[3] = "/" /\ s[6] = "/" /\ s[11] = " " /\ s[14] = ":" /\ s[17] = ":"
    /\ \A i \in (1..19) \ {3, 6, 11, 14, 17} : IsDigit(s[i])
    /\ LET d == DigitsToNat(SubSeq(s, 1, 2))
           m == DigitsToNat(SubSeq(s, 4, 5))
           Y == DigitsToNat(SubSeq(s, 7, 10))
       IN  /\ m \in 1..12
           /\ Y >= 1
           /\ d >= 1 /\ d <= DaysInMonth(Y, m)
           /\ DigitsToNat(SubSeq(s, 12, 13)) <= 23
           /\ DigitsToNat(SubSeq(s, 15, 16)) <= 59
           /\ DigitsToNat(SubSeq(s, 18, 19)) <= 59

C20_Step ==
    \A a \in Actors :
       conversations[a] = ASK_DATE_CONFIRM =>
       \A msg \in Solo.data, now \in Times, db_ok \in BOOLEAN :
          add_pedido_date(a, msg, now, db_ok)
          => IF lower(strip(msg)) \in DateKeywords
             THEN /\ conversations'[a] = END
                  /\ finished'[a] # NotFinished
                  /\ finished'[a].ok
                     => pedidos'[Len(pedidos')].created_at = strftime(now)
             ELSE IF ExactDate(strip(msg))
                  THEN /\ conversations'[a] = END
                       /\ finished'[a] # NotFinished
                  ELSE /\ reply'.msgs = <<"data_invalida">>
                       /\ UNCHANGED <<conversations, user_data, pedidos>>

C20_AgoraAndNow == [][C20_Step]_vars

(***************************************************************************)
(* C21: under any interleaving, an update handled for one actor (a step of *)
(* the dialogue, /add_pedido, /cancel, the final step with its INSERT)     *)
(* leaves the conversation state and the user_data of every other actor as *)
(* they were; what such an update changes outside the actor's own          *)
(* conversation and user_data is the table pedidos alone (and the answer   *)
(* sent).                                                                  *)
(***************************************************************************)
\* the updates the ConversationHandler handles for actor a
DialogueStep(a) ==
    \/ add_pedido_start(a)
    \/ \E msg \in Race.id, db_ok \in BOOLEAN : add_pedido_id(a, msg, db_ok)
    \/ \E msg \in Race.cpf : add_pedido_cpf(a, msg)
    \/ \E msg \in Race.nome : add_pedido_name(a, msg)
    \/ \E msg \in Race.produto : add_pedido_product(a, msg)
    \/ \E msg \in Race.valor : add_pedido_value(a, msg)
    \/ \E msg \in Race.desconto : add_pedido_discount(a, msg)
    \/ \E msg \in Race.trans_id : add_pedido_transid(a, msg)
    \/ \E msg \in Race.data, now \in Times, db_ok \in BOOLEAN :
          add_pedido_date(a, msg, now, db_ok)
    \/ cancel(a)

\* the conversation state, the user_data or the outcome of actor b changes
SessionChanges(b) ==
    \/ conversations'[b] # conversations[b]
    \/ user_data'[b] # user_data[b]
    \/ finished'[b] # finished[b]

\* a change of b's session is made by no update handled for another actor,
\* nor by the callback that marks an order delivered
C21_Step ==
    \A b \in Actors :
       SessionChanges(b) =>
       /\ \A a \in Actors \ {b} : ~DialogueStep(a)
       /\ reply'.msgs \notin {<<"marcado_como_entregue">>, <<"erro_ao_atualizar_status">>}

C21_SessionsIndependent == [][C21_Step]_vars

\* one actor has just cancelled while the other is in the dialogue with a
\* draft, and an order is stored
C21_Witness ==
    /\ reply.msgs = <<"operacao_cancelada">>
    /\ Len(pedidos) > 0
    /\ \E b \in Actors : /\ conversations[b] \in Awaiting \ {ASK_ID}
                         /\ HasKey(Draft(b), "id")

(***************************************************************************)
(* C22 as stated: /add_pedido from an actor who is in the dialogue starts  *)
(* the dialogue again: the actor is asked for the id as at the start,      *)
(* stands at ASK_ID, and the draft collected so far is gone.               *)
(***************************************************************************)
C22_Again ==
    \A a \in Actors :
       (conversations[a] \in Awaiting /\ add_pedido_in_conversation(a))
       => /\ conversations'[a] = ASK_ID
          /\ Draft(a)' = EmptyDict
          /\ reply'.msgs = <<"digite_id">>

C22_BeginReplacesSession == [][C22_Again]_vars

(***************************************************************************)
(* C23: the status of every row is 'pendente' or 'entregue'; a row is      *)
(* 'pendente' when it is inserted; and a row that is 'entregue' stays the  *)
(* same row and stays 'entregue' in every later step.                      *)
(***************************************************************************)
C23_Status ==
    \A i \in 1..Len(pedidos) : pedidos[i].status \in {PENDENTE, ENTREGUE}

C23_Step ==
    /\ \A i \in 1..Len(pedidos) :
          pedidos[i].status = ENTREGUE
          => /\ i <= Len(pedidos')
             /\ pedidos'[i].id = pedidos[i].id
             /\ pedidos'[i].status = ENTREGUE
    /\ \A i \in (Len(pedidos) + 1)..Len(pedidos') : pedidos'[i].status = PENDENTE

C23_DeliveredStaysDelivered == [](C23_Status) /\ [][C23_Step]_vars

\* an order has just been stored as pending behind one that is delivered
C23_Witness ==
    /\ reply.msgs = <<"pedido_cadastrado">>
    /\ Len(pedidos) = 2
    /\ pedidos[1].status = ENTREGUE
    /\ pedidos[2].status = PENDENTE

(***************************************************************************)
(* The actor of a conversation who, as long as the dialogue waits for a    *)
(* text, sooner or later sends one that the step accepts.  Live holds, for *)
(* every step that can refuse, a text it refuses and a text it accepts.    *)
(***************************************************************************)
Live ==
    [actors   |-> {1},
     id       |-> {<<"A", "1">>, <<"g", "e", "r", "a", "r">>},
     cpf      |-> {<<"p", "u", "l", "a", "r">>, <<"1", "2">>},
     nome     |-> {<<"A", "n", "a">>, <<"A", "l">>},
     produto  |-> {<<"P", "e", "n">>, <<"a", "b">>},
     valor    |-> {<<"5">>, <<"-", "5">>},
     desconto |-> {<<"1">>, <<"9">>, <<"x">>},
     trans_id |-> {<<"T">>},
     data     |-> {<<"a", "g", "o", "r", "a">>, <<"n", "o", "w">>},
     pid      |-> {<<"A", "1">>} \cup UuidPool]

NextLive ==
    \/ Handle(Live)
    \/ \E a \in Live.actors : add_pedido_in_conversation(a)

\* a text of actor a is accepted: the dialogue moves on by one step
Accept(a) ==
    /\ conversations[a] \in Awaiting
    /\ conversations' = [conversations EXCEPT ![a] = Successor(@)]
    /\ Handle([Live EXCEPT !.actors = {a}])
    /\ reply'.msgs # <<"operacao_cancelada">>

SpecLive ==
    /\ Init
    /\ [][NextLive]_vars
    /\ \A a \in Live.actors : WF_vars(Accept(a))

(***************************************************************************)
(* C24: in every state in which the dialogue of an actor waits for a text, *)
(* whatever the draft and the table, some text is accepted.  A step that   *)
(* accepts moves the dialogue on by exactly one of its eight positions, so *)
(* the outcome (saved or not saved) comes with the eighth accepted text    *)
(* after /add_pedido; a refused text leaves conversation, draft, table and *)
(* outcome as they were, however often it is repeated; the conversation    *)
(* ends in no other way than by the eighth accepted text or /cancel.  And  *)
(* when the actor keeps sending accepted texts and never cancels, every    *)
(* dialogue that waits for a text reaches its outcome.                     *)
(***************************************************************************)
Position(st) == CHOOSE i \in 1..9 : StepOrder[i] = st

C24_Enabled == \A a \in Live.actors : conversations[a] \in Awaiting => ENABLED Accept(a)

C24_Step ==
    \A a \in Live.actors :
       /\ reply'.msgs \in Reprompts
          => UNCHANGED <<conversations, user_data, pedidos, finished>>
       /\ (conversations[a] \in Awaiting /\ conversations'[a] # conversations[a])
          => \/ /\ reply'.msgs = <<"operacao_cancelada">>
                /\ conversations'[a] = END
                /\ finished'[a] = NotFinished
             \/ /\ reply'.msgs \notin Reprompts
                /\ Position(conversations'[a]) = Position(conversations[a]) + 1
                /\ (Position(conversations[a]) = 8) = (finished'[a] # NotFinished)
       /\ (conversations[a] = END /\ conversations'[a] # END)
          => Position(conversations'[a]) = 1 /\ finished'[a] = NotFinished

C24_Outcome ==
    \A a \in Live.actors :
       [](reply.msgs # <<"operacao_cancelada">>)
       => (conversations[a] \in Awaiting ~> Finalized(a))

C24_NoDeadlock == [](C24_Enabled) /\ [][C24_Step]_vars /\ C24_Outcome

\* a dialogue has come to the outcome "not saved" while an order is stored
C24_Witness ==
    /\ reply.msgs = <<"erro_ao_salvar">>
    /\ Finalized(1)
    /\ ~finished[1].ok
    /\ Len(pedidos) = 1

=============================================================================
